---- MODULE Spec2Model ----
(***************************************************************************)
(* DISO: the analysis session workflow of src/App.tsx.                     *)
(*                                                                         *)
(* The React component App keeps the session (status, currentFile, result, *)
(* error), the in-memory history list and the active tab as component      *)
(* state, and mirrors the history list in localStorage under the key       *)
(* 'diso_history'.  Every event handler and every asynchronous callback    *)
(* runs to completion on the single UI thread, so each is one action here. *)
(*                                                                         *)
(* Conventions.                                                            *)
(*  - A JavaScript string is a sequence of tokens (words and the           *)
(*    separator characters ":", ";", ","); '' is << >>.                    *)
(*  - A nullable value (T | null, T | undefined) is a sequence of length   *)
(*    at most one: << >> is null/undefined, <<x>> is the value x.          *)
(***************************************************************************)
EXTENDS Integers, Sequences, FiniteSets, TLC

VARIABLES
    activeTab,      \* App.tsx:10  'analyze' | 'history'
    status,         \* App.tsx:11  AnalysisStatus
    currentFile,    \* App.tsx:12  UploadedFile | null
    result,         \* App.tsx:13  AnalysisResult | null
    error,          \* App.tsx:14  string | null
    history,        \* App.tsx:15  HistoryItem[]
    storage,        \* localStorage['diso_history']
    loaded,         \* the mount effect (App.tsx:18-27) has run
    tasks,          \* processFile invocations whose read or inference call is pending
    nextTid,        \* number of reads started so far + 1
    clock,          \* the last value Date.now() returned
    folder,         \* the files the user has at hand to pick from
    deleted,        \* history variable: the ids deleteHistoryItem was applied to
    lastOp          \* history variable: the handler that ran last and what it called

vars == <<activeTab, status, currentFile, result, error, history, storage,
          loaded, tasks, nextTid, clock, folder, deleted, lastOp>>

session == <<status, currentFile, result, error>>

-----------------------------------------------------------------------------
(* Bounds of the model.                                                    *)

\* how many file reads (accepted processFile invocations) one run may start
MaxSubmissions == 2

-----------------------------------------------------------------------------
(* types.ts                                                                *)

IDLE      == "IDLE"
ANALYZING == "ANALYZING"
COMPLETED == "COMPLETED"
ERROR     == "ERROR"
AnalysisStatus == {IDLE, ANALYZING, COMPLETED, ERROR}

None == << >>
Some(x) == <<x>>

\* representative verdicts of the inference collaborator (AnalysisResult)
VerdictSynthetic ==
    [isAiGenerated |-> TRUE, confidenceScore |-> 87, verdict |-> "Likely AI-generated"]
VerdictAuthentic ==
    [isAiGenerated |-> FALSE, confidenceScore |-> 12, verdict |-> "Likely authentic"]
VerdictUnsure ==
    [isAiGenerated |-> TRUE, confidenceScore |-> 50, verdict |-> "Inconclusive"]

-----------------------------------------------------------------------------
(* JavaScript string helpers over token sequences.                         *)

\* String.prototype.includes: pat occurs in s as a contiguous run of tokens
Includes(s, pat) ==
    \E i \in 0..(Len(s) - Len(pat)) :
        \A j \in 1..Len(pat) : s[i + j] = pat[j]

\* String.prototype.split(sep) for a one-token separator: the pieces between
\* the separators, in order; a string without the separator is one piece.
RECURSIVE Split(_, _)
Split(s, sep) ==
    IF \A i \in 1..Len(s) : s[i] # sep
    THEN <<s>>
    ELSE LET k == CHOOSE i \in 1..Len(s) :
                      s[i] = sep /\ \A j \in 1..(i - 1) : s[j] # sep
         IN  <<SubSeq(s, 1, k - 1)>> \o Split(SubSeq(s, k + 1, Len(s)), sep)

\* array[i] with JavaScript's rule that an index past the end is undefined
\* (i is 0-based as in the source)
At(arr, i) == IF i + 1 <= Len(arr) THEN Some(arr[i + 1]) ELSE None

-----------------------------------------------------------------------------
(* Raw files, as the file picker hands them over (name, byte length, MIME  *)
(* type and the base64 text of the content).                               *)

\* App.tsx:118  20 * 1024 * 1024
MaxFileSize == 20 * 1024 * 1024

SmallJpeg == [name |-> "photo.jpg", size |-> 2 * 1024 * 1024,
              type |-> <<"image/jpeg">>, body |-> <<"QUJD">>]
EdgeVideo == [name |-> "clip.mp4", size |-> MaxFileSize,
              type |-> <<"video/mp4">>, body |-> <<"RUZH">>]
BigPng    == [name |-> "huge.png", size |-> 25 * 1024 * 1024,
              type |-> <<"image/png">>, body |-> <<"SUpL">>]

\* The files the user can pick in one run: one file the size check lets
\* through (under the ceiling, or exactly at it) and one over the ceiling.
Folders == {{SmallJpeg, BigPng}, {EdgeVideo, BigPng}}

\* new File([], name, { type })  (App.tsx:67): no content, zero length
PlaceholderFile(fileName, fileType) ==
    [name |-> fileName, size |-> 0, type |-> fileType, body |-> << >>]

\* FileReader.readAsDataURL: what e.target?.result can be when onload fires.
\* A non-empty file reads as "data:<type>;base64,<body>".  An empty file
\* reads as that envelope with an empty body or, on some engines, as the
\* bare "data:".  (The load event of a FileReader always carries the
\* reader and its result, so the absent case of `e.target?.result`, None,
\* is not among the outcomes.)
ReadAsDataURL(file) ==
    IF file.size = 0
    THEN {Some(<<"data", ":">>),
          Some(<<"data", ":">> \o file.type \o <<";", "base64", ",">>)}
    ELSE {Some(<<"data", ":">> \o file.type \o <<";", "base64", ",">> \o file.body)}

-----------------------------------------------------------------------------
(* Raw errors: a thrown value is nullish or an object with an optional     *)
(* message.                                                                *)

ErrorWith(msg) == [nullish |-> FALSE, message |-> Some(msg)]
NullError      == [nullish |-> TRUE,  message |-> None]
BareError      == [nullish |-> FALSE, message |-> None]

\* new Error("File too large. Please upload media under 20MB.")  App.tsx:119
FileTooLargeMessage ==
    <<"File", "too", "large", ".", "Please", "upload", "media", "under", "20MB", ".">>
FileTooLargeError == ErrorWith(FileTooLargeMessage)

\* the TypeError of calling .split on undefined (App.tsx:132-133)
SplitTypeError ==
    ErrorWith(<<"Cannot", "read", "properties", "of", "undefined">>)

\* rejections of analyzeMedia: a connectivity failure, an authorization
\* failure, a failure no indicator matches, and a rejection with null
NetworkError == ErrorWith(<<"Failed", "to", "fetch">>)
AuthError    == ErrorWith(<<"got", "status", ":", "403", "Forbidden">>)
OddError     == ErrorWith(<<"quota", "exhausted">>)
InferenceErrors == {NetworkError, OddError, NullError}

\* the DOMException localStorage.setItem throws when the quota is exceeded
QuotaError == ErrorWith(<<"The", "quota", "has", "been", "exceeded">>)

\* analyzeMedia(data, mimeType) resolved: the verdicts the collaborator gives
\* for a payload (a video is reported authentic, anything else synthetic)
InferenceVerdicts(data, mimeType) ==
    IF mimeType = <<"video/mp4">> THEN {VerdictAuthentic} ELSE {VerdictSynthetic}

MsgAuthentication ==
    <<"Authentication", "Failed", ".", "Please", "check", "your", "API", "Key",
      "configuration", ".">>
MsgRejected ==
    <<"Analysis", "Rejected", ".", "The", "media", "format", "might", "be",
      "unsupported", "or", "the", "file", "is", "corrupted", ".">>
MsgOverload ==
    <<"System", "Overload", ".", "The", "AI", "forensic", "model", "is", "currently",
      "busy", ".", "Please", "try", "again", "in", "a", "moment", ".">>
MsgNetwork ==
    <<"Network", "Error", ".", "Please", "check", "your", "internet", "connection", ".">>
MsgNoResponse ==
    <<"Analysis", "Error", ".", "The", "AI", "model", "failed", "to", "generate", "a",
      "structured", "report", ".">>
MsgUnexpected ==
    <<"An", "unexpected", "error", "occurred", "during", "analysis", ".", "Please",
      "try", "again", ".">>
\* App.tsx:157
MsgReadFailed ==
    <<"Failed", "to", "read", "file", ".", "Please", "try", "another", "file", ".">>

\* App.tsx:79  (error?.message || '').toString()
MessageOf(err) ==
    IF err.nullish \/ err.message = None THEN << >> ELSE err.message[1]

\* getFriendlyErrorMessage with the status-400 test placed before the
\* authorization test
getFriendlyErrorMessageStatusFirst(err) ==
    LET msg == MessageOf(err) IN
    IF Includes(msg, <<"400">>) \/ Includes(msg, <<"INVALID_ARGUMENT">>)
    THEN MsgRejected
    ELSE IF Includes(msg, <<"MISSING_API_KEY">>) \/ Includes(msg, <<"API", "key">>)
           \/ Includes(msg, <<"403">>)
    THEN MsgAuthentication
    ELSE IF Includes(msg, <<"503">>) \/ Includes(msg, <<"500">>)
                \/ Includes(msg, <<"Overloaded">>)
    THEN MsgOverload
    ELSE IF Includes(msg, <<"fetch">>) \/ Includes(msg, <<"network">>)
                \/ Includes(msg, <<"Failed", "to", "fetch">>)
    THEN MsgNetwork
    ELSE IF Includes(msg, <<"File", "too", "large">>)
    THEN msg
    ELSE IF Includes(msg, <<"NO_RESPONSE_TEXT">>)
    THEN MsgNoResponse
    ELSE MsgUnexpected

\* App.tsx:78-106
getFriendlyErrorMessage(err) ==
    LET msg == MessageOf(err) IN
    IF Includes(msg, <<"MISSING_API_KEY">>) \/ Includes(msg, <<"API", "key">>)
           \/ Includes(msg, <<"403">>)
    THEN MsgAuthentication
    ELSE IF Includes(msg, <<"400">>) \/ Includes(msg, <<"INVALID_ARGUMENT">>)
    THEN MsgRejected
    ELSE IF Includes(msg, <<"503">>) \/ Includes(msg, <<"500">>)
                \/ Includes(msg, <<"Overloaded">>)
    THEN MsgOverload
    ELSE IF Includes(msg, <<"fetch">>) \/ Includes(msg, <<"network">>)
                \/ Includes(msg, <<"Failed", "to", "fetch">>)
    THEN MsgNetwork
    ELSE IF Includes(msg, <<"File", "too", "large">>)
    THEN msg
    ELSE IF Includes(msg, <<"NO_RESPONSE_TEXT">>)
    THEN MsgNoResponse
    ELSE MsgUnexpected

-----------------------------------------------------------------------------
(* Media encoding: the body of reader.onload up to setCurrentFile.         *)

\* EncodeUpload with the payload taken from the wrong piece of the split
EncodeUploadKeepsEnvelope(file, raw) ==
    IF raw = None
    THEN [threw |-> TRUE, err |-> SplitTypeError, upload |-> None]
    ELSE
      LET parts     == Split(raw[1], ",")
          meta      == At(parts, 0)
          metaParts == Split(meta[1], ":")
          declared  == At(metaParts, 1)
      IN  IF declared = None
          THEN [threw |-> TRUE, err |-> SplitTypeError, upload |-> None]
          ELSE [threw |-> FALSE, err |-> NullError,
                upload |-> Some([file       |-> file,
                                 previewUrl |-> raw[1],
                                 base64     |-> meta,
                                 mimeType   |-> Split(declared[1], ";")[1]])]

\* App.tsx:129-140.  raw is e.target?.result (None when absent).  The value
\* is either the thrown error or the uploadData object.
EncodeUpload(file, raw) ==
    IF raw = None
    THEN [threw |-> TRUE, err |-> SplitTypeError, upload |-> None]
    ELSE
      LET parts     == Split(raw[1], ",")
          meta      == At(parts, 0)
          data      == At(parts, 1)
          metaParts == Split(meta[1], ":")
          declared  == At(metaParts, 1)
      IN  IF declared = None
          THEN [threw |-> TRUE, err |-> SplitTypeError, upload |-> None]
          ELSE [threw |-> FALSE, err |-> NullError,
                upload |-> Some([file       |-> file,
                                 previewUrl |-> raw[1],
                                 base64     |-> data,
                                 mimeType   |-> Split(declared[1], ";")[1]])]

-----------------------------------------------------------------------------
(* History store.                                                          *)
(*                                                                         *)
(* localStorage['diso_history'] is absent, text JSON.parse rejects, or the *)
(* JSON text of a HistoryItem array.  JSON.stringify followed by           *)
(* JSON.parse gives back the same strings, numbers and booleans of every   *)
(* HistoryItem field, so a stored array is kept as the list it encodes.    *)

StoredAbsent    == [kind |-> "absent",    items |-> << >>]
StoredMalformed == [kind |-> "malformed", items |-> << >>]
Stringify(list) == [kind |-> "json",      items |-> list]

\* a record persisted by an earlier run of the application
OldItem ==
    [id |-> 0, timestamp |-> 0, fileName |-> "old.png", fileType |-> <<"image/png">>,
     previewUrl |-> << >>, result |-> VerdictUnsure]

InitialStorages == {StoredAbsent, StoredMalformed, Stringify(<<OldItem>>)}

\* App.tsx:30-37.  idNow and tsNow are the two readings of Date.now().
NewItem(file, analysis, idNow, tsNow) ==
    [id         |-> idNow,
     timestamp  |-> tsNow,
     fileName   |-> file.file.name,
     fileType   |-> file.mimeType,
     previewUrl |-> file.previewUrl,
     result     |-> analysis]

\* WithoutImage rebuilt field by field, the verdict forgotten
WithoutImageOrVerdict(item) ==
    [item EXCEPT !.previewUrl = << >>, !.result = VerdictUnsure]

\* App.tsx:46  { ...newItem, previewUrl: '' }
WithoutImage(item) == [item EXCEPT !.previewUrl = << >>]

\* Prepend with the new record put behind the list
PrependLast(item, list) == list \o <<item>>

\* App.tsx:40 and 47: the new record in front of the list the closure holds
Prepend(item, list) == <<item>> \o list

\* addToHistory without the inner try/catch around the second write
addToHistoryRethrows(file, analysis, hist, idNow, tsNow, fullFits, elidedFits) ==
    LET newItem == NewItem(file, analysis, idNow, tsNow)
        full    == <<newItem>> \o hist
        elided  == <<[newItem EXCEPT !.previewUrl = << >>]>> \o hist
    IN  IF fullFits
        THEN [attempts |-> <<[items |-> full, ok |-> TRUE]>>,
              setHistory |-> Some(full), setItem |-> Some(Stringify(full)),
              threw |-> FALSE]
        ELSE [attempts |-> <<[items |-> full, ok |-> FALSE],
                             [items |-> elided, ok |-> elidedFits]>>,
              setHistory |-> IF elidedFits THEN Some(elided) ELSE None,
              setItem |-> IF elidedFits THEN Some(Stringify(elided)) ELSE None,
              threw |-> ~elidedFits]

\* App.tsx:29-55.  hist is the `history` of the render whose addToHistory
\* closure is called; fullFits / elidedFits say whether localStorage.setItem
\* accepts the first and the second write.  The value tells what was
\* written (attempts), the new React state and the new stored value, if
\* any, and whether an exception leaves the function.
addToHistory(file, analysis, hist, idNow, tsNow, fullFits, elidedFits) ==
    LET newItem == NewItem(file, analysis, idNow, tsNow)
        full    == Prepend(newItem, hist)
        elided  == Prepend(WithoutImage(newItem), hist)
    IN  IF fullFits
        THEN [attempts |-> <<[items |-> full, ok |-> TRUE]>>,
              setHistory |-> Some(full), setItem |-> Some(Stringify(full)),
              threw |-> FALSE]
        ELSE IF elidedFits
        THEN [attempts |-> <<[items |-> full, ok |-> FALSE],
                             [items |-> elided, ok |-> TRUE]>>,
              setHistory |-> Some(elided), setItem |-> Some(Stringify(elided)),
              threw |-> FALSE]
        ELSE [attempts |-> <<[items |-> full, ok |-> FALSE],
                             [items |-> elided, ok |-> FALSE]>>,
              setHistory |-> None, setItem |-> None,
              threw |-> FALSE]

\* FilterOut cutting the list at the matching record
RECURSIVE FilterOutTruncates(_, _)
FilterOutTruncates(list, id) ==
    IF list = << >> THEN << >>
    ELSE IF Head(list).id = id THEN << >>
    ELSE <<Head(list)>> \o FilterOutTruncates(Tail(list), id)

\* App.tsx:59  history.filter(item => item.id !== id)
RECURSIVE FilterOut(_, _)
FilterOut(list, id) ==
    IF list = << >> THEN << >>
    ELSE IF Head(list).id = id THEN FilterOut(Tail(list), id)
    ELSE <<Head(list)>> \o FilterOut(Tail(list), id)

\* the UploadedFile built from a record, with the record's image as its payload
MockUploadKeepsPayload(item) ==
    [file       |-> PlaceholderFile(item.fileName, item.fileType),
     previewUrl |-> item.previewUrl,
     base64     |-> Some(item.previewUrl),
     mimeType   |-> item.fileType]

\* App.tsx:66-71: the UploadedFile rebuilt from a history record
MockUpload(item) ==
    [file       |-> PlaceholderFile(item.fileName, item.fileType),
     previewUrl |-> item.previewUrl,
     base64     |-> Some(<< >>),
     mimeType   |-> item.fileType]

-----------------------------------------------------------------------------
(* The state machine.                                                      *)

\* what lastOp records of a handler run
Op(kind, tid) ==
    [kind     |-> kind,    \* the handler
     tid      |-> tid,     \* the processFile invocation it belongs to, or 0
     arg      |-> None,    \* the file handed to processFile
     item     |-> None,    \* the history record handed to loadHistoryItem
     raw      |-> None,    \* the raw error handed to getFriendlyErrorMessage
     read     |-> None,    \* the file whose FileReader read it started
     call     |-> None,    \* the arguments of the analyzeMedia call it made
     archive  |-> None,    \* the arguments it passed to addToHistory
     attempts |-> << >>]   \* the localStorage.setItem calls it made

\* every pending invocation stops being the session's current one
Abandon(ts) == {[t EXCEPT !.abandoned = TRUE] : t \in ts}

Init ==
    /\ activeTab = "analyze"
    /\ status = IDLE
    /\ currentFile = None
    /\ result = None
    /\ error = None
    /\ history = << >>
    /\ storage \in InitialStorages
    /\ loaded = FALSE
    /\ tasks = {}
    /\ nextTid = 1
    /\ clock = 1
    /\ folder \in Folders
    /\ deleted = {}
    /\ lastOp = Op("init", 0)

\* the mount effect parsing the stored list without handing it to setHistory
LoadHistoryForgets ==
    /\ ~loaded
    /\ loaded' = TRUE
    /\ history' = history
    /\ lastOp' = Op("load", 0)
    /\ UNCHANGED <<activeTab, status, currentFile, result, error, storage,
                   tasks, nextTid, clock, folder, deleted>>

\* App.tsx:18-27: the mount effect, run once before any user event
LoadHistory ==
    /\ ~loaded
    /\ loaded' = TRUE
    /\ history' = IF storage.kind = "json" THEN storage.items ELSE history
    /\ lastOp' = Op("load", 0)
    /\ UNCHANGED <<activeTab, status, currentFile, result, error, storage,
                   tasks, nextTid, clock, folder, deleted>>

\* TooLarge with a mistyped ceiling
TooLargeLenient(file) == file.size > 200 * 1024 * 1024

\* App.tsx:118
TooLarge(file) == file.size > MaxFileSize

\* App.tsx:116-167, the synchronous part of processFile(file): the size
\* check, the three state resets and the start of the read; the outer catch
\* for the size rejection.
processFile(file, origin) ==
    IF TooLarge(file)
    THEN /\ error' = Some(getFriendlyErrorMessage(FileTooLargeError))
         /\ status' = ERROR
         /\ lastOp' = [Op(origin, 0) EXCEPT !.arg = Some(file)]
         /\ UNCHANGED <<activeTab, currentFile, result, history, storage, loaded,
                        tasks, nextTid, clock, folder, deleted>>
    ELSE /\ nextTid <= MaxSubmissions
         /\ status' = ANALYZING
         /\ error' = None
         /\ result' = None
         /\ tasks' = Abandon(tasks) \cup
                       {[tid |-> nextTid, file |-> file, hist |-> history,
                         phase |-> "reading", upload |-> None, abandoned |-> FALSE,
                         origin |-> origin]}
         /\ nextTid' = nextTid + 1
         /\ lastOp' = [Op(origin, nextTid) EXCEPT !.arg = Some(file), !.read = Some(file)]
         /\ UNCHANGED <<activeTab, currentFile, history, storage, loaded, clock, folder, deleted>>

\* App.tsx:243-246: the upload area, shown on the analyze tab while IDLE
SelectFile(file) ==
    /\ loaded
    /\ activeTab = "analyze"
    /\ status = IDLE
    /\ processFile(file, "select")

\* App.tsx:250, 297, 303-308: the Retry Analysis button of the error panel
RetryOffered ==
    /\ activeTab = "analyze"
    /\ status = ERROR
    /\ currentFile # None
    /\ error # None /\ error # Some(<< >>)

Retry ==
    /\ loaded
    /\ RetryOffered
    /\ processFile(currentFile[1].file, "retry")

\* every file a FileReader can be started on: the files of the folders and
\* the placeholders loadHistoryItem builds for their records
ReadableFiles ==
    LET picked == UNION Folders IN
    picked \cup {PlaceholderFile(f.name, f.type) : f \in picked}
           \cup {PlaceholderFile(OldItem.fileName, OldItem.fileType)}

\* EncodeUpload of every read, evaluated once
Encoded ==
    [file \in ReadableFiles |->
        [raw \in ReadAsDataURL(file) |-> EncodeUpload(file, raw)]]

\* App.tsx:128-154, up to the await: reader.onload
ReaderOnload(t, raw) ==
    \E enc \in {Encoded[t.file][raw]} :
    /\ t.phase = "reading"
    /\ raw \in ReadAsDataURL(t.file)
    /\ IF enc.threw
       THEN /\ error' = Some(getFriendlyErrorMessage(enc.err))
            /\ status' = ERROR
            /\ tasks' = tasks \ {t}
            /\ lastOp' = Op("onload", t.tid)
            /\ UNCHANGED currentFile
       ELSE /\ currentFile' = enc.upload
            /\ tasks' = (tasks \ {t}) \cup
                          {[t EXCEPT !.phase = "calling", !.upload = enc.upload]}
            /\ lastOp' = [Op("onload", t.tid) EXCEPT
                            !.call = Some([data     |-> enc.upload[1].base64,
                                           mimeType |-> enc.upload[1].mimeType])]
            /\ UNCHANGED <<status, error>>
    /\ UNCHANGED <<activeTab, result, history, storage, loaded, nextTid, clock, folder, deleted>>

\* reader.onerror without setError and setStatus
ReaderOnerrorSilent(t) ==
    /\ t.phase = "reading"
    /\ tasks' = tasks \ {t}
    /\ lastOp' = Op("onerror", t.tid)
    /\ UNCHANGED <<activeTab, status, currentFile, result, error, history, storage,
                   loaded, nextTid, clock, folder, deleted>>

\* App.tsx:156-159: reader.onerror
ReaderOnerror(t) ==
    /\ t.phase = "reading"
    /\ error' = Some(MsgReadFailed)
    /\ status' = ERROR
    /\ tasks' = tasks \ {t}
    /\ lastOp' = Op("onerror", t.tid)
    /\ UNCHANGED <<activeTab, currentFile, result, history, storage, loaded,
                   nextTid, clock, folder, deleted>>

\* Date.now() (App.tsx:31-32).  The two readings of one addToHistory call
\* fall in the same millisecond, and every verdict arrives in a later
\* millisecond than the one before.
Tick(c) == c + 1

\* App.tsx:145-153: analyzeMedia resolved with a verdict
AnalyzeResolved(t, analysis, fullFits, elidedFits) ==
    LET now == Tick(clock)
        out == addToHistory(t.upload[1], analysis, t.hist, now, now,
                            fullFits, elidedFits)
    IN
    /\ t.phase = "calling"
    /\ analysis \in InferenceVerdicts(t.upload[1].base64, t.upload[1].mimeType)
    /\ clock' = now
    /\ result' = Some(analysis)
    /\ IF out.threw
       THEN /\ error' = Some(getFriendlyErrorMessage(QuotaError))
            /\ status' = ERROR
       ELSE /\ status' = COMPLETED
            /\ UNCHANGED error
    /\ history' = IF out.setHistory = None THEN history ELSE out.setHistory[1]
    /\ storage' = IF out.setItem = None THEN storage ELSE out.setItem[1]
    /\ tasks' = tasks \ {t}
    /\ lastOp' = [Op("resolved", t.tid) EXCEPT
                    !.archive = Some([file |-> t.upload[1], analysis |-> analysis]),
                    !.attempts = out.attempts]
    /\ UNCHANGED <<activeTab, currentFile, loaded, nextTid, folder, deleted>>

\* AnalyzeRejected with the wrong status constant in the catch block
AnalyzeRejectedAsCompleted(t, apiError) ==
    /\ t.phase = "calling"
    /\ error' = Some(getFriendlyErrorMessage(apiError))
    /\ status' = COMPLETED
    /\ tasks' = tasks \ {t}
    /\ lastOp' = [Op("rejected", t.tid) EXCEPT !.raw = Some(apiError)]
    /\ UNCHANGED <<activeTab, currentFile, result, history, storage, loaded,
                   nextTid, clock, folder, deleted>>

\* App.tsx:149-153: analyzeMedia rejected
AnalyzeRejected(t, apiError) ==
    /\ t.phase = "calling"
    /\ error' = Some(getFriendlyErrorMessage(apiError))
    /\ status' = ERROR
    /\ tasks' = tasks \ {t}
    /\ lastOp' = [Op("rejected", t.tid) EXCEPT !.raw = Some(apiError)]
    /\ UNCHANGED <<activeTab, currentFile, result, history, storage, loaded,
                   nextTid, clock, folder, deleted>>

\* handleReset without setResult(null)
handleResetKeepsResult ==
    /\ status' = IDLE
    /\ currentFile' = None
    /\ result' = result
    /\ error' = None
    /\ tasks' = Abandon(tasks)

\* App.tsx:169-174
handleReset ==
    /\ status' = IDLE
    /\ currentFile' = None
    /\ result' = None
    /\ error' = None
    /\ tasks' = Abandon(tasks)

\* App.tsx:287-293: the close button of the analysis view
ResetButton ==
    /\ loaded
    /\ activeTab = "analyze"
    /\ status # IDLE
    /\ currentFile # None
    /\ handleReset
    /\ lastOp' = Op("reset", 0)
    /\ UNCHANGED <<activeTab, history, storage, loaded, nextTid, clock, folder, deleted>>

\* App.tsx:181: the logo
LogoClick ==
    /\ loaded
    /\ handleReset
    /\ activeTab' = "analyze"
    /\ lastOp' = Op("reset", 0)
    /\ UNCHANGED <<history, storage, loaded, nextTid, clock, folder, deleted>>

\* App.tsx:199, 210, 334: the tab buttons
SetActiveTab(tab) ==
    /\ loaded
    /\ activeTab # tab
    /\ activeTab' = tab
    /\ UNCHANGED <<status, currentFile, result, error, history, storage, loaded,
                   tasks, nextTid, clock, folder, deleted, lastOp>>

\* App.tsx:64-76, reached from the row's onClick (App.tsx:347)
loadHistoryItem(item) ==
    /\ currentFile' = Some(MockUpload(item))
    /\ result' = Some(item.result)
    /\ status' = COMPLETED
    /\ activeTab' = "analyze"
    /\ tasks' = Abandon(tasks)
    /\ lastOp' = [Op("loadItem", 0) EXCEPT !.item = Some(item)]
    /\ UNCHANGED <<error, history, storage, loaded, nextTid, clock, folder, deleted>>

SelectHistoryItem(i) ==
    /\ loaded
    /\ activeTab = "history"
    /\ i \in 1..Len(history)
    /\ loadHistoryItem(history[i])

\* App.tsx:57-62, reached from the row's Delete button (App.tsx:389-395).
\* The list written is never longer than the one it replaces, so this
\* setItem stays within the quota.
deleteHistoryItem(id) ==
    LET updatedHistory == FilterOut(history, id) IN
    /\ history' = updatedHistory
    /\ storage' = Stringify(updatedHistory)
    /\ deleted' = deleted \cup {id}
    /\ lastOp' = [Op("delete", 0) EXCEPT
                    !.attempts = <<[items |-> updatedHistory, ok |-> TRUE]>>]
    /\ UNCHANGED <<activeTab, status, currentFile, result, error, loaded, tasks,
                   nextTid, clock, folder>>

DeleteHistoryItem(i) ==
    /\ loaded
    /\ activeTab = "history"
    /\ i \in 1..Len(history)
    /\ deleteHistoryItem(history[i].id)

Next ==
    \/ LoadHistory
    \/ \E file \in folder : SelectFile(file)
    \/ Retry
    \/ \E t \in tasks : \E raw \in ReadAsDataURL(t.file) : ReaderOnload(t, raw)
    \/ \E t \in tasks : ReaderOnerror(t)
    \/ \E t \in tasks, fullFits, elidedFits \in BOOLEAN :
          \E analysis \in {VerdictSynthetic, VerdictAuthentic} :
             AnalyzeResolved(t, analysis, fullFits, elidedFits)
    \/ \E t \in tasks, apiError \in InferenceErrors : AnalyzeRejected(t, apiError)
    \/ ResetButton
    \/ LogoClick
    \/ \E tab \in {"analyze", "history"} : SetActiveTab(tab)
    \/ \E i \in 1..Len(history) : SelectHistoryItem(i)
    \/ \E i \in 1..Len(history) : DeleteHistoryItem(i)

Spec == Init /\ [][Next]_vars

-----------------------------------------------------------------------------
(* Helpers of the properties.                                              *)

Items(list) == {list[i] : i \in 1..Len(list)}

\* the records of the persisted list (none while nothing parsable is stored)
Persisted == storage.items

\* the step runs a callback of the pending invocation t (its read callback,
\* its read failure or the settlement of its analyzeMedia call)
Advances(t) == t \in tasks /\ t \notin tasks' /\ \A u \in tasks' : u.tid = t.tid => u.phase # t.phase

-----------------------------------------------------------------------------
(* C1.  A result that arrives for a submission abandoned by Reset, by a    *)
(* newer submission or by selecting a history item is discarded: the       *)
(* callbacks of an abandoned processFile invocation never change status,   *)
(* result, error or currentFile.                                           *)
C1_StaleResultDiscarded ==
    [][\A t \in tasks : (t.abandoned /\ Advances(t)) => UNCHANGED session]_vars

C3_CeilingRejected ==
    lastOp.read # None => lastOp.read[1].size < 20 * 1024 * 1024

(* C4.  Submitting an oversized file (25 MB) moves the session from Idle   *)
(* directly to Failed with the FileTooLarge message: the handler never     *)
(* sets ANALYZING, starts no read and no inference call, and creates or    *)
(* persists no history record.                                             *)
C4_OversizedFailsAtOnce ==
    [][(lastOp' # lastOp /\ lastOp'.kind = "select"
          /\ lastOp'.arg[1].size > 20 * 1024 * 1024) =>
            /\ status = IDLE
            /\ status' = ERROR
            /\ error' = Some(<<"File", "too", "large", ".", "Please", "upload",
                               "media", "under", "20MB", ".">>)
            /\ lastOp'.read = None
            /\ lastOp'.call = None
            /\ lastOp'.archive = None
            /\ lastOp'.attempts = << >>
            /\ UNCHANGED <<tasks, nextTid, history, storage, currentFile, result>>]_vars

\* the 25 MB file has just been rejected
C4_Witness ==
    /\ lastOp.kind = "select"
    /\ lastOp.arg = Some(BigPng)
    /\ status = ERROR
    /\ error = Some(FileTooLargeMessage)
    /\ tasks = {}

\* the handlers that end a submission in failure
FailureOp(op) ==
    \/ op.kind \in {"onerror", "rejected"}
    \/ op.kind = "onload" /\ op.call = None
    \/ op.kind \in {"select", "retry"} /\ op.read = None

(* C5.  A record is handed to addToHistory if and only if an inference     *)
(* call returned a verdict: the handler of a resolved analyzeMedia call    *)
(* sets COMPLETED and passes exactly the pair (media, verdict) of that     *)
(* call to addToHistory; every failure path (size rejection, read failure, *)
(* payload parsing failure, inference failure) sets ERROR, calls           *)
(* addToHistory not at all and leaves the list and the store untouched.    *)
C5_ArchiveIffVerdict ==
    [][lastOp' # lastOp =>
         /\ lastOp'.kind = "resolved" =>
               /\ status' = COMPLETED
               /\ \E t \in tasks :
                     /\ t.tid = lastOp'.tid /\ t.phase = "calling" /\ Advances(t)
                     /\ result' # None
                     /\ lastOp'.archive
                          = Some([file |-> t.upload[1], analysis |-> result'[1]])
         /\ FailureOp(lastOp') =>
               /\ status' = ERROR
               /\ lastOp'.archive = None
               /\ lastOp'.attempts = << >>
               /\ UNCHANGED <<history, storage>>
         /\ (lastOp'.archive # None) <=> (lastOp'.kind = "resolved")
         /\ (storage' # storage) => lastOp'.kind \in {"resolved", "delete"}]_vars

\* a verdict has arrived and its record heads the history
C5_Witness ==
    /\ lastOp.kind = "resolved"
    /\ status = COMPLETED
    /\ history # << >>
    /\ Some(history[1].result) = result
    /\ lastOp.archive # None

(* C6.  A history record is removed only by deleteHistoryItem for its id:  *)
(* a record that is in the in-memory list and in the persisted list stays  *)
(* in both in every step that is not a deletion of that id.                *)
C6_RemovedOnlyByDelete ==
    [][\A item \in Items(history) \cap Items(Persisted) :
          \/ item \in Items(history') /\ item \in Items(storage'.items)
          \/ lastOp'.kind = "delete" /\ item.id \in deleted']_vars

(* C7.  After deleteHistoryItem(id), neither the in-memory list nor the    *)
(* persisted list ever contains a record with that id again.               *)
C7_DeletedStaysDeleted ==
    \A item \in Items(history) \cup Items(Persisted) : item.id \notin deleted

(* C8.  addToHistory tries its persistence strategies in a fixed order:    *)
(* first the full record with its preview; if that write fails, exactly    *)
(* one more write of the same list with the record's previewUrl replaced   *)
(* by '' and every other field identical; if that fails too, nothing more  *)
(* is written and the store and the list keep their values.  After a       *)
(* successful write the list and the store both hold what was written.     *)
C8_FallbackOrder ==
    [][(lastOp' # lastOp /\ lastOp'.kind = "resolved") =>
         LET a    == lastOp'.attempts
             arg  == lastOp'.archive[1]
             t    == CHOOSE u \in tasks : u.tid = lastOp'.tid
             rec  == a[1].items[1]
         IN  /\ Len(a) \in {1, 2}
             /\ a[1].items = <<rec>> \o t.hist
             /\ rec = [id         |-> clock',
                       timestamp  |-> clock',
                       fileName   |-> arg.file.file.name,
                       fileType   |-> arg.file.mimeType,
                       previewUrl |-> arg.file.previewUrl,
                       result     |-> arg.analysis]
             /\ rec.previewUrl # << >>
             /\ a[1].ok =>
                   /\ Len(a) = 1
                   /\ history' = a[1].items
                   /\ storage' = [kind |-> "json", items |-> a[1].items]
             /\ ~a[1].ok =>
                   /\ Len(a) = 2
                   /\ a[2].items = <<[rec EXCEPT !.previewUrl = << >>]>> \o t.hist
                   /\ a[2].ok =>
                         /\ history' = a[2].items
                         /\ storage' = [kind |-> "json", items |-> a[2].items]
                   /\ ~a[2].ok => UNCHANGED <<history, storage>>]_vars

\* the full write failed and the write without the preview succeeded
C8_Witness ==
    /\ lastOp.kind = "resolved"
    /\ Len(lastOp.attempts) = 2
    /\ lastOp.attempts[2].ok
    /\ history # << >>
    /\ history[1].previewUrl = << >>
    /\ history[1].result = lastOp.archive[1].analysis
    /\ Persisted = history

(* C9.  Archival happens only in the handler that sets COMPLETED, and its  *)
(* failure never changes the session: whatever the two writes do, the      *)
(* handler leaves status COMPLETED, result the received verdict, and       *)
(* error and currentFile as they were, so no persistence failure shows as  *)
(* a Failed state.                                                         *)
C9_ArchivalFailureAbsorbed ==
    [][(lastOp' # lastOp /\ lastOp'.archive # None) =>
         \E t \in tasks :
            /\ t.tid = lastOp'.tid
            /\ status' = COMPLETED
            /\ result' # None
            /\ result'[1] \in InferenceVerdicts(t.upload[1].base64, t.upload[1].mimeType)
            /\ error' = error
            /\ currentFile' = currentFile]_vars

\* both writes failed and the session shows the verdict
C9_Witness ==
    /\ lastOp.kind = "resolved"
    /\ Len(lastOp.attempts) = 2
    /\ ~lastOp.attempts[1].ok /\ ~lastOp.attempts[2].ok
    /\ status = COMPLETED
    /\ result = Some(lastOp.archive[1].analysis)
    /\ error = None

NewestFirst(list) ==
    \A i, j \in 1..Len(list) : i < j => list[i].timestamp >= list[j].timestamp

(* C10.  The history list is ordered newest-first by creation timestamp in *)
(* every reachable state, in memory and in persisted storage, and right    *)
(* after a successful append the new record is the first element of both.  *)
C10_NewestFirst ==
    /\ NewestFirst(history)
    /\ NewestFirst(Persisted)
    /\ (lastOp.kind = "resolved" /\ \E k \in 1..Len(lastOp.attempts) : lastOp.attempts[k].ok) =>
          /\ history # << >>
          /\ history[1].timestamp = clock
          /\ history[1].fileName = lastOp.archive[1].file.file.name
          /\ history[1].result = lastOp.archive[1].analysis
          /\ Persisted = history

\* a record has just been put in front of an older one
C10_Witness ==
    /\ lastOp.kind = "resolved"
    /\ lastOp.attempts[Len(lastOp.attempts)].ok
    /\ Len(history) >= 2
    /\ history[1].timestamp > history[2].timestamp

\* the identifiers a removal can be asked for: every one issued so far and one never issued
KnownIds == 0..(clock + 1)

(* C11.  deleteHistoryItem is idempotent and write-through: the click on a *)
(* row leaves exactly the other records, in their previous relative order, *)
(* writes that same list to storage at once, and removing the same id from *)
(* the result again, or any id that is not in it, gives the list back.     *)
C11_DeleteIdempotentWriteThrough ==
    [][\A i \in 1..Len(history) :
          DeleteHistoryItem(i) =>
              LET id == history[i].id
                  Keep(x) == x.id # id
              IN /\ history' = SelectSeq(history, Keep)
                 /\ storage' = Stringify(history')
                 /\ Persisted' = history'
                 /\ FilterOut(history', id) = history'
                 /\ \A other \in KnownIds :
                       (\A k \in 1..Len(history') : history'[k].id # other) =>
                           FilterOut(history', other) = history']_vars

\* a row has just been removed from a list that keeps two other records
C11_Witness ==
    /\ lastOp.kind = "delete"
    /\ Len(history) >= 2
    /\ deleted # {}
    /\ \A k \in 1..Len(history) : history[k].id \notin deleted
    /\ Persisted = history

(* C12.  Loading the history when the application starts never fails it:   *)
(* with an absent or unparsable stored value the in-memory history is the  *)
(* empty list and the session stays idle with nothing set, and with a      *)
(* stored value that parses the in-memory history is the stored list.      *)
C12_LoadNeverFails ==
    lastOp.kind = "load" =>
        /\ loaded
        /\ status = IDLE
        /\ currentFile = None /\ result = None /\ error = None
        /\ tasks = {}
        /\ storage.kind \in {"absent", "malformed"} => history = << >>
        /\ storage.kind = "json" => history = storage.items

\* the application has started on unparsable stored content
C12_Witness ==
    /\ lastOp.kind = "load"
    /\ storage = StoredMalformed
    /\ history = << >>
    /\ status = IDLE

(* C13.  At most one submission is in flight at any time: no second read   *)
(* or inference call is started while an earlier one is still pending.     *)
C13_SingleFlight ==
    Cardinality(tasks) <= 1

(* C14.  Reset from any state leaves the session idle with currentFile,    *)
(* result and error cleared, and changes neither the in-memory history nor *)
(* the persisted history.                                                  *)
C14_ResetClearsSession ==
    [][(ResetButton \/ LogoClick) =>
          /\ status' = IDLE
          /\ currentFile' = None /\ result' = None /\ error' = None
          /\ history' = history
          /\ storage' = storage]_vars

\* a reset has just abandoned a submission in flight, with records in the history
C14_Witness ==
    /\ lastOp.kind = "reset"
    /\ \E t \in tasks : t.abandoned
    /\ status = IDLE /\ currentFile = None /\ result = None /\ error = None
    /\ history # << >>
    /\ Persisted = history

(* C15.  Selecting a history record leaves the session completed with the  *)
(* record's verdict as result, a currentFile whose preview and content     *)
(* type are the record's, whose encoded payload is empty and whose file is *)
(* a zero-length placeholder; the in-memory and the persisted history do   *)
(* not change.                                                             *)
C15_SelectRecordShowsVerdict ==
    [][\A i \in 1..Len(history) :
          SelectHistoryItem(i) =>
              /\ status' = COMPLETED
              /\ result' = Some(history[i].result)
              /\ currentFile' # None
              /\ currentFile'[1].previewUrl = history[i].previewUrl
              /\ currentFile'[1].mimeType = history[i].fileType
              /\ currentFile'[1].base64 = Some(<< >>)
              /\ currentFile'[1].file.size = 0
              /\ currentFile'[1].file.body = << >>
              /\ currentFile'[1].file.name = history[i].fileName
              /\ currentFile'[1].file.type = history[i].fileType
              /\ history' = history
              /\ storage' = storage]_vars

\* a record archived with its image has just been selected
C15_Witness ==
    /\ lastOp.kind = "loadItem"
    /\ lastOp.item # None
    /\ lastOp.item[1].previewUrl # << >>
    /\ lastOp.item[1] \in Items(history)
    /\ status = COMPLETED
    /\ result = Some(lastOp.item[1].result)
    /\ currentFile # None
    /\ currentFile[1].file.size = 0

(* C16.  Retry is never available for a session loaded from the history:   *)
(* in no reachable state is Retry offered while currentFile is the         *)
(* zero-length placeholder, and the placeholder is never read or           *)
(* submitted.                                                              *)
C16_NoRetryOnPlaceholder ==
    /\ RetryOffered => currentFile[1].file.size # 0
    /\ \A t \in tasks : t.file.size # 0

-----------------------------------------------------------------------------
(* The error classifier on arbitrary rejections: the submission path with  *)
(* analyzeMedia rejecting with any value of a bounded set of raw errors.   *)

\* longest generated message, in tokens
MaxMsgLen == 3

\* the words getFriendlyErrorMessage looks for (App.tsx:81-101) and one it does not
Vocabulary ==
    {"MISSING_API_KEY", "API", "key", "403", "400", "INVALID_ARGUMENT", "503",
     "500", "Overloaded", "fetch", "network", "Failed", "to", "File", "too",
     "large", "NO_RESPONSE_TEXT", "oops"}

Messages == UNION {[1..n -> Vocabulary] : n \in 0..MaxMsgLen}

\* the values a catch clause can be handed: null or undefined, an object
\* without a message, and errors with any message
RawErrors ==
    {NullError, BareError, AuthError, NetworkError, OddError, FileTooLargeError}
        \cup {ErrorWith(m) : m \in Messages}

InitClassify ==
    /\ activeTab = "analyze"
    /\ status = IDLE
    /\ currentFile = None
    /\ result = None
    /\ error = None
    /\ history = << >>
    /\ storage = StoredAbsent
    /\ loaded = FALSE
    /\ tasks = {}
    /\ nextTid = 1
    /\ clock = 1
    /\ folder = {SmallJpeg, BigPng}
    /\ deleted = {}
    /\ lastOp = Op("init", 0)

NextClassify ==
    \/ LoadHistory
    \/ \E file \in folder : SelectFile(file)
    \/ Retry
    \/ \E t \in tasks : \E raw \in ReadAsDataURL(t.file) : ReaderOnload(t, raw)
    \/ \E t \in tasks, apiError \in RawErrors : AnalyzeRejected(t, apiError)

SpecClassify == InitClassify /\ [][NextClassify]_vars

\* the text of a raw error: its message when it has one, else the empty string
TextOf(raw) == IF raw.nullish \/ raw.message = None THEN << >> ELSE raw.message[1]

HasAuthIndicator(msg) ==
    \/ Includes(msg, <<"MISSING_API_KEY">>)
    \/ Includes(msg, <<"API", "key">>)
    \/ Includes(msg, <<"403">>)
HasRejectedIndicator(msg) == Includes(msg, <<"400">>) \/ Includes(msg, <<"INVALID_ARGUMENT">>)
HasOverloadIndicator(msg) ==
    Includes(msg, <<"503">>) \/ Includes(msg, <<"500">>) \/ Includes(msg, <<"Overloaded">>)
HasNetworkIndicator(msg) == Includes(msg, <<"fetch">>) \/ Includes(msg, <<"network">>)
HasSizeIndicator(msg) == Includes(msg, <<"File", "too", "large">>)
HasNoResponseIndicator(msg) == Includes(msg, <<"NO_RESPONSE_TEXT">>)

(* C17.  getFriendlyErrorMessage is total: whatever analyzeMedia rejects   *)
(* with (null, an object without a message, any message) the session gets  *)
(* one of the fixed category messages.  A message with an authorization    *)
(* indicator (MISSING_API_KEY, 'API key', 403) gives the authentication    *)
(* message whatever else it contains; a connectivity failure message gives *)
(* the network message; a message with no indicator gives the generic one. *)
C17_ClassifierTotal ==
    (lastOp.kind = "rejected" /\ lastOp.raw # None) =>
        LET msg == TextOf(lastOp.raw[1])
        IN  /\ status = ERROR
            /\ error # None
            /\ error[1] \in {MsgAuthentication, MsgRejected, MsgOverload, MsgNetwork,
                              MsgNoResponse, MsgUnexpected, msg}
            /\ error[1] # << >>
            /\ HasAuthIndicator(msg) => error[1] = MsgAuthentication
            /\ lastOp.raw[1] = NetworkError => error[1] = MsgNetwork
            /\ (HasNetworkIndicator(msg) /\ ~HasAuthIndicator(msg)
                    /\ ~HasRejectedIndicator(msg) /\ ~HasOverloadIndicator(msg))
                  => error[1] = MsgNetwork
            /\ (~HasAuthIndicator(msg) /\ ~HasRejectedIndicator(msg)
                    /\ ~HasOverloadIndicator(msg) /\ ~HasNetworkIndicator(msg)
                    /\ ~HasSizeIndicator(msg) /\ ~HasNoResponseIndicator(msg))
                  => error[1] = MsgUnexpected
            /\ error[1] = msg => HasSizeIndicator(msg)

\* a rejection whose message carries an authorization indicator and a
\* status-400 indicator has just been classified as an authentication failure
C17_Witness ==
    /\ lastOp.kind = "rejected"
    /\ lastOp.raw # None
    /\ Includes(TextOf(lastOp.raw[1]), <<"API", "key">>)
    /\ Includes(TextOf(lastOp.raw[1]), <<"400">>)
    /\ error = Some(MsgAuthentication)

-----------------------------------------------------------------------------
(* The session as a tagged state, under Spec.                              *)

(* C18.  In every reachable failed state the Retry action is offered,      *)
(* except when the failure is the size rejection, where Retry is never     *)
(* offered.                                                                *)
C18_RetryOfferedUnlessTooLarge ==
    (activeTab = "analyze" /\ status = ERROR) =>
        (RetryOffered <=> error # Some(FileTooLargeMessage))

(* C19.  The session variables always form one valid tagged state: a       *)
(* completed session has a result and no error, a failed session has an    *)
(* error and no result, an idle or analyzing session has neither.          *)
C19_TaggedState ==
    /\ status = COMPLETED => (result # None /\ error = None)
    /\ status = ERROR => (error # None /\ result = None)
    /\ status \in {IDLE, ANALYZING} => (result = None /\ error = None)

(* C20.  Whenever the status is not idle, currentFile is set, so that the  *)
(* analysis view is rendered: after a size rejection, after a read         *)
(* failure, and during the file read before its callback fires.            *)
C20_CurrentFileSetUnlessIdle ==
    status # IDLE => currentFile # None

-----------------------------------------------------------------------------
(* Termination.  The browser delivers the load or the error event of every *)
(* read that was started, and the inference collaborator settles every     *)
(* call, with a verdict or with a rejection.                               *)

\* the FileReader of submission tid fires onload or onerror
ReadCompletes(tid) ==
    \E t \in tasks :
       /\ t.tid = tid
       /\ \/ \E raw \in ReadAsDataURL(t.file) : ReaderOnload(t, raw)
          \/ ReaderOnerror(t)

\* the analyzeMedia call of submission tid resolves or rejects
CallSettles(tid) ==
    \E t \in tasks :
       /\ t.tid = tid
       /\ \/ \E fullFits, elidedFits \in BOOLEAN :
                \E analysis \in {VerdictSynthetic, VerdictAuthentic} :
                   AnalyzeResolved(t, analysis, fullFits, elidedFits)
          \/ \E apiError \in InferenceErrors : AnalyzeRejected(t, apiError)

\* some pending read or call is answered
Answered == \E tid \in 1..MaxSubmissions : ReadCompletes(tid) \/ CallSettles(tid)

Fairness == WF_vars(Answered)

\* a start with one record stored and one folder: the choice of the stored
\* content and of the accepted file does not bear on termination
InitFair ==
    /\ Init
    /\ storage = Stringify(<<OldItem>>)
    /\ folder = {SmallJpeg, BigPng}

SpecFair == InitFair /\ [][Next]_vars /\ Fairness

(* C21.  Every submission terminates: when every read fires its callback   *)
(* and every inference call is answered, a session that is analyzing       *)
(* eventually leaves that status, for completed, failed or (by a reset)    *)
(* idle; and the session is never analyzing with no read or call pending.  *)
C21_SubmissionTerminates ==
    /\ [](status = ANALYZING => tasks # {})
    /\ (status = ANALYZING) ~> (status \in {COMPLETED, ERROR, IDLE})

\* the last pending call has just been answered and the session has left analyzing
C21_Witness ==
    /\ lastOp.kind \in {"resolved", "rejected"}
    /\ lastOp.tid = nextTid - 1
    /\ tasks = {}
    /\ status \in {COMPLETED, ERROR}

====
